---- MODULE Spec2Model ----
(***************************************************************************)
(* Card validator: GET /cards/validate.                                    *)
(*                                                                         *)
(* One request travels through the router, the ValidationPipe (the DTO's   *)
(* decorators),                                                            *)
(* CardsController.validateCardInfo, the three steps of                    *)
(* CardsValidatorService.validate and CardsResponseInterceptor, which      *)
(* writes the HTTP response.                                               *)
(***************************************************************************)
EXTENDS Integers, Sequences, FiniteSets, TLC

VARIABLES
    caller,         \* "http": a request to /cards/validate through the router,
                    \* the pipe, the controller and the interceptor;
                    \* "direct": service.validate(dto) called on its own
    method,         \* the request's HTTP method
    query,          \* the request's query: parameter name -> string, a
                    \* sequence of one-character strings; a parameter that
                    \* is not sent is not in the domain
    fault,          \* an error of another class that the handler can raise
    remaining,      \* how many more times a direct caller calls validate
                    \* with the same DTO
    cardNumber,     \* cardDto.cardNumber: a sequence of one-character strings
    expiryYear,     \* cardDto.expiryYear
    expiryMonth,    \* cardDto.expiryMonth
    pc,             \* where the call is
    clock,          \* the date, <<getFullYear(), getMonth()>>; <<>> as long
                    \* as nothing has read it
    currentDate,    \* validateDate's local: <<>> until `new Date()` is read,
                    \* then <<getFullYear(), getMonth()>>
    calls,          \* the validation steps entered so far, in order
    result,         \* what the route handler produced: a return or a throw
    responses,      \* the HTTP responses written for this request, in order
    emitted,        \* what the interceptor's observable emitted
    others,         \* the calls of validate in progress beside the running
                    \* one, each with its DTO, its position and its locals
    previous        \* the earlier calls of a direct caller: the date of
                    \* each and how it ended

vars == <<caller, method, query, fault, remaining, cardNumber, expiryYear,
          expiryMonth, pc, clock, currentDate, calls, result, responses,
          emitted, others, previous>>

\* What the caller sends and what the environment does; no step changes it.
request == <<caller, method, query, fault>>

\* The DTO handed to validate; only the pipe writes it.
cardDto == <<cardNumber, expiryYear, expiryMonth>>

(***************************************************************************)
(* Bounds of the model.                                                    *)
(***************************************************************************)
MaxLen == 17        \* generated card numbers have lengths 12..MaxLen
TailLen == 1        \* their last TailLen characters range over all digits
BaseYear == 2025    \* the year the clock reads first
MaxCalls == 2       \* a direct caller calls validate at most MaxCalls times
MaxElapsed == 1     \* at most MaxElapsed months pass between two readings
MaxConcurrent == 2  \* at most MaxConcurrent calls of validate are in progress

(***************************************************************************)
(* Constants of the program.                                               *)
(***************************************************************************)
MaxCardNumberLength == 16
MinExpiryYear == 1900
MinExpiryMonth == 1
MaxExpiryMonth == 12
permittedCardNumberLength == {13, 15, 16}

WRONG_LENGTH == "Wrong card number length"
EXPIRED == "Card has expired"
LUHN_FAILED == "Invalid card number (failed Luhn algorithm check)"
CARD_NOT_DEFINED == "Card number has to be defined"
CARD_NOT_STRING == "Card number has to be a string"
TOO_LONG == "Card number is too long"
YEAR_NOT_DEFINED == "expiryYear should not be null or undefined"
YEAR_EMPTY == "expiryYear should not be empty"
YEAR_NOT_NUMBER ==
    "expiryYear must be a number conforming to the specified constraints"
YEAR_TOO_LOW == "expiryYear must not be less than 1900"
MONTH_NOT_DEFINED == "expiryMonth should not be null or undefined"
MONTH_EMPTY == "expiryMonth should not be empty"
MONTH_NOT_NUMBER ==
    "expiryMonth must be a number conforming to the specified constraints"
MONTH_TOO_LOW == "expiryMonth must not be less than 1"
MONTH_TOO_HIGH == "expiryMonth must not be greater than 12"
INTERNAL_SERVER_ERROR == "Internal Server Error"

(***************************************************************************)
(* Characters and JavaScript's Number(ch) on a one-character string: a     *)
(* decimal digit gives its value, white space gives 0, anything else NaN.  *)
(***************************************************************************)
DigitChars == <<"0", "1", "2", "3", "4", "5", "6", "7", "8", "9">>

NaN == -1

\* A property the query did not carry.
Undefined == -2

\* The characters the inputs are made of.
Chars == {DigitChars[k] : k \in 1..Len(DigitChars)} \cup {" ", "a", "b", "c", "."}

IsDigitChar(c) == \E k \in 1..Len(DigitChars) : DigitChars[k] = c

NumberOf ==
    [c \in Chars |->
        IF IsDigitChar(c)
        THEN (CHOOSE k \in 1..Len(DigitChars) : DigitChars[k] = c) - 1
        ELSE IF c = " " THEN 0 ELSE NaN]

Number(c) == NumberOf[c]

\* IEEE arithmetic as far as the reducer uses it: NaN is absorbing and
\* every comparison with NaN is false.
Add(a, b) == IF a = NaN \/ b = NaN THEN NaN ELSE a + b
Mul(a, b) == IF a = NaN \/ b = NaN THEN NaN ELSE a * b
Mod(a, b) == IF a = NaN \/ b = NaN THEN NaN ELSE a % b
Gt(a, b) == a # NaN /\ b # NaN /\ a > b

(***************************************************************************)
(* Numbers that are not whole.  A number with one decimal place, n + f/10  *)
(* with f in 1..9, is kept as the integer Fraction(n, f), which is below   *)
(* every other value; a whole number is kept as itself.  The comparisons   *)
(* are JavaScript's: false when an operand is NaN or undefined.            *)
(***************************************************************************)
Fraction(n, f) == 0 - (10 * n + f) - 10

IsFraction(v) == v < Fraction(0, 0)

\* Ten times the number.
Tenths(v) == IF IsFraction(v) THEN 0 - v - 10 ELSE 10 * v

IsComparable(v) == v # NaN /\ v # Undefined

Le(a, b) == IsComparable(a) /\ IsComparable(b) /\ Tenths(a) <= Tenths(b)
Lt(a, b) == IsComparable(a) /\ IsComparable(b) /\ Tenths(a) < Tenths(b)

\* cardNumber.split('').map(Number)
nums(cn) == [i \in 1..Len(cn) |-> Number(cn[i])]

\* The array left as it is.
reverseNone(s) == s

\* Array.prototype.reverse
reverse(s) == [i \in 1..Len(s) |-> s[Len(s) + 1 - i]]

\* The doubled value added without the reduction.
reducerNoReduction(acc, cur, index) ==
    IF index % 2 = 1 THEN Add(acc, cur) ELSE Add(acc, Mul(cur, 2))

\* The odd indexes doubled instead of the even ones.
reducerOddDoubled(acc, cur, index) ==
    IF index % 2 = 0
    THEN Add(acc, cur)
    ELSE IF Gt(Mul(cur, 2), 9)
         THEN Add(Add(acc, Mod(Mul(cur, 2), 10)), 1)
         ELSE Add(acc, Mul(cur, 2))

(***************************************************************************)
(* The Luhn step, current revision: the digits are indexed from the left,  *)
(* index 0 first.                                                          *)
(***************************************************************************)
reducer(acc, cur, index) ==
    IF index % 2 = 1
    THEN Add(acc, cur)
    ELSE IF Gt(Mul(cur, 2), 9)
         THEN Add(Add(acc, Mod(Mul(cur, 2), 10)), 1)
         ELSE Add(acc, Mul(cur, 2))

\* The earlier revision's callback: cur * 2 - 9 instead of (cur * 2) % 10 + 1.
reducerRev(acc, cur, index) ==
    IF index % 2 = 1
    THEN Add(acc, cur)
    ELSE IF Gt(Mul(cur, 2), 9)
         THEN Add(acc, Add(Mul(cur, 2), -9))
         ELSE Add(acc, Mul(cur, 2))

\* nums.reduce(callback, 0): left to right, index 0 for the first element.
\* The callback's value is computed (a) before the next element is taken.
RECURSIVE reduce(_, _, _)
reduce(ns, k, acc) ==
    IF k > Len(ns) THEN acc
    ELSE CHOOSE r \in { reduce(ns, k + 1, a) :
                            a \in {reducer(acc, ns[k], k - 1)} } : TRUE

RECURSIVE reduceRev(_, _, _)
reduceRev(ns, k, acc) ==
    IF k > Len(ns) THEN acc
    ELSE reduceRev(ns, k + 1, reducerRev(acc, ns[k], k - 1))

sum(cn) == reduce(nums(cn), 1, 0)

sumReversed(cn) == reduceRev(reverse(nums(cn)), 1, 0)

\* The last digit compared with the sum of the others.
luhnPassesLastDigit(cn) ==
    Len(cn) > 0 /\ Mod(sum(cn), 10) = Number(cn[Len(cn)])

\* sum % 10 !== 0 throws; NaN % 10 is NaN, which is !== 0.
luhnPasses(cn) == Mod(sum(cn), 10) = 0

luhnPassesReversed(cn) == Mod(sumReversed(cn), 10) = 0

(***************************************************************************)
(* The length step and the expiry step.                                    *)
(***************************************************************************)
\* A range check instead of membership in the list.
lengthPermittedRange(cn) == Len(cn) >= 13 /\ Len(cn) <= 16

\* A list kept on the instance and emptied by the first call.
lengthPermittedOnce(cn) ==
    Len(cn) \in permittedCardNumberLength /\ previous = <<>>

\* A list kept on the instance and emptied by the first length step among
\* the calls in progress.
lengthPermittedShared(cn) ==
    /\ Len(cn) \in permittedCardNumberLength
    /\ \A i \in 1..Len(others) : others[i].calls = <<>>

lengthPermitted(cn) == Len(cn) \in permittedCardNumberLength

\* getMonth() + 1 < expiryMonth: the current month rejected.
isValidStrict(date, year, month) ==
    \/ date[1] = year /\ Lt(date[2] + 1, month)
    \/ Lt(date[1], year)

\* The month compared whatever the year.
isValidMonthOnly(date, year, month) ==
    \/ Le(date[2], month)
    \/ Lt(date[1], year)

\* date is <<getFullYear(), getMonth()>>; getMonth() is 0-based.
isValid(date, year, month) ==
    \/ date[1] = year /\ Le(date[2], month)
    \/ Lt(date[1], year)

(***************************************************************************)
(* The query as Express parses it and the DTO the pipe builds from it.     *)
(***************************************************************************)
Properties == {"cardNumber", "expiryYear", "expiryMonth"}

Has(q, k) == k \in DOMAIN q

\* A parameter sent twice is parsed into the array of its two values; the
\* query keeps the second value under the parameter's name with "[1]".
second(k) == k \o "[1]"

isArray(q, k) == Has(q, second(k))

\* A property the query did not carry, where a string is expected.
UndefinedString == <<"undefined">>

\* The value the DTO gets for a property without @Transform.
stringProperty(q, k) ==
    IF ~Has(q, k) THEN UndefinedString
    ELSE IF isArray(q, k) THEN <<q[k], q[second(k)]>>
    ELSE q[k]

RECURSIVE trimStart(_)
trimStart(s) ==
    IF s # <<>> /\ Head(s) = " " THEN trimStart(Tail(s)) ELSE s

RECURSIVE trimEnd(_)
trimEnd(s) ==
    IF s # <<>> /\ s[Len(s)] = " " THEN trimEnd(SubSeq(s, 1, Len(s) - 1))
    ELSE s

RECURSIVE decimal(_)
decimal(s) ==
    IF s = <<>> THEN 0
    ELSE 10 * decimal(SubSeq(s, 1, Len(s) - 1)) + Number(s[Len(s)])

\* Number(value) on a string: white space around is dropped, the empty
\* string is 0, decimal digits are their value, digits with one decimal
\* point are the number to its first decimal place (the inputs have no
\* more), anything else here is NaN.
toNumber(s) ==
    LET t == trimEnd(trimStart(s))
        dots == { i \in 1..Len(t) : t[i] = "." }
        dot == CHOOSE i \in dots : TRUE
        whole == SubSeq(t, 1, dot - 1)
        places == SubSeq(t, dot + 1, Len(t))
    IN  IF \A i \in 1..Len(t) : IsDigitChar(t[i]) THEN decimal(t)
        ELSE IF /\ Cardinality(dots) = 1
                /\ Len(t) > 1
                /\ \A i \in 1..Len(t) : i \in dots \/ IsDigitChar(t[i])
        THEN IF places = <<>> \/ Number(places[1]) = 0
             THEN decimal(whole)
             ELSE Fraction(decimal(whole), Number(places[1]))
        ELSE NaN

\* @Transform(({ value }) => Number(value)) runs on the keys the query has;
\* Number(array) is Number of the values joined by ",".
numberProperty(q, k) ==
    IF ~Has(q, k) THEN Undefined
    ELSE IF isArray(q, k) THEN toNumber(q[k] \o <<",">> \o q[second(k)])
    ELSE toNumber(q[k])

isNumber(v) == v # Undefined /\ v # NaN

(***************************************************************************)
(* The pre-validation gate: the messages of the violated constraints.      *)
(* Unknown properties come first, then the DTO's properties in their       *)
(* order; within a property IsDefined comes first and the other decorators *)
(* follow from the last one up.                                            *)
(***************************************************************************)
ExtraParams == <<"extraParam1">>

shouldNotExist(k) == "property " \o k \o " should not exist"

\* whitelist: true, forbidNonWhitelisted: true
whitelistViolations(q) ==
    LET unknown == SelectSeq(ExtraParams, LAMBDA k : Has(q, k)) IN
        [i \in 1..Len(unknown) |-> shouldNotExist(unknown[i])]

\* The card number without @MaxLength.
cardNumberViolationsNoMax(q) ==
    IF ~Has(q, "cardNumber")
    THEN <<CARD_NOT_DEFINED, CARD_NOT_STRING>>
    ELSE IF isArray(q, "cardNumber") THEN <<CARD_NOT_STRING>>
    ELSE <<>>

\* @IsNotEmpty added to the card number.
cardNumberViolationsNotEmpty(q) ==
    IF ~Has(q, "cardNumber")
    THEN <<CARD_NOT_DEFINED, TOO_LONG, CARD_NOT_STRING>>
    ELSE IF isArray(q, "cardNumber") THEN <<TOO_LONG, CARD_NOT_STRING>>
    ELSE IF Len(q.cardNumber) > MaxCardNumberLength THEN <<TOO_LONG>>
    ELSE IF q.cardNumber = <<>> THEN <<"Card number should not be empty">>
    ELSE <<>>

\* @IsOptional in the place of @IsDefined.
cardNumberViolationsOptional(q) ==
    IF ~Has(q, "cardNumber") THEN <<>>
    ELSE IF isArray(q, "cardNumber") THEN <<TOO_LONG, CARD_NOT_STRING>>
    ELSE IF Len(q.cardNumber) > MaxCardNumberLength THEN <<TOO_LONG>>
    ELSE <<>>

\* @IsDefined, @IsString, @MaxLength(16); an array is defined, is not a
\* string and has no string length.
cardNumberViolations(q) ==
    IF ~Has(q, "cardNumber")
    THEN <<CARD_NOT_DEFINED, TOO_LONG, CARD_NOT_STRING>>
    ELSE IF isArray(q, "cardNumber") THEN <<TOO_LONG, CARD_NOT_STRING>>
    ELSE IF Len(q.cardNumber) > MaxCardNumberLength THEN <<TOO_LONG>>
    ELSE <<>>

\* @IsDefined, @IsNotEmpty, @Transform, @IsNumber, @Min(1900)
expiryYearViolations(q) ==
    LET v == numberProperty(q, "expiryYear") IN
        (IF v = Undefined THEN <<YEAR_NOT_DEFINED>> ELSE <<>>)
        \o (IF ~(isNumber(v) /\ Le(MinExpiryYear, v))
            THEN <<YEAR_TOO_LOW>> ELSE <<>>)
        \o (IF ~isNumber(v) THEN <<YEAR_NOT_NUMBER>> ELSE <<>>)
        \o (IF v = Undefined THEN <<YEAR_EMPTY>> ELSE <<>>)

\* The month checked against its maximum only.
expiryMonthViolationsNoMin(q) ==
    LET v == numberProperty(q, "expiryMonth") IN
        (IF v = Undefined THEN <<MONTH_NOT_DEFINED>> ELSE <<>>)
        \o (IF ~(isNumber(v) /\ Le(v, MaxExpiryMonth))
            THEN <<MONTH_TOO_HIGH>> ELSE <<>>)
        \o (IF ~isNumber(v) THEN <<MONTH_NOT_NUMBER>> ELSE <<>>)
        \o (IF v = Undefined THEN <<MONTH_EMPTY>> ELSE <<>>)

\* @IsDefined, @IsNotEmpty, @Transform, @IsNumber, @Min(1), @Max(12)
expiryMonthViolations(q) ==
    LET v == numberProperty(q, "expiryMonth") IN
        (IF v = Undefined THEN <<MONTH_NOT_DEFINED>> ELSE <<>>)
        \o (IF ~(isNumber(v) /\ Le(v, MaxExpiryMonth))
            THEN <<MONTH_TOO_HIGH>> ELSE <<>>)
        \o (IF ~(isNumber(v) /\ Le(MinExpiryMonth, v))
            THEN <<MONTH_TOO_LOW>> ELSE <<>>)
        \o (IF ~isNumber(v) THEN <<MONTH_NOT_NUMBER>> ELSE <<>>)
        \o (IF v = Undefined THEN <<MONTH_EMPTY>> ELSE <<>>)

violations(q) ==
    whitelistViolations(q) \o cardNumberViolations(q)
    \o expiryYearViolations(q) \o expiryMonthViolations(q)

\* Array.prototype.join(';')
RECURSIVE join(_)
join(ms) ==
    IF Len(ms) = 0 THEN ""
    ELSE IF Len(ms) = 1 THEN ms[1]
    ELSE ms[1] \o ";" \o join(Tail(ms))

(***************************************************************************)
(* Inputs.                                                                 *)
(***************************************************************************)
Str(ds) == [i \in 1..Len(ds) |-> DigitChars[ds[i] + 1]]

\* The numbers of the unit tests, the end-to-end tests and the README.
Vectors == {
    Str(<<4,1,1,1,1,1,1,1,1,1,1,1,1,1,1,1>>),
    Str(<<4,1,1,1,1,1,1,1,1,1,1,1,1,1,1,2>>),
    Str(<<0,0,0,0,0,0,0,0,0,0,0,0,0,0,0,0>>),
    Str(<<1,1,1,1,1,1,1,1,1,1,1,1,1,1,1,1>>),
    Str(<<4,5,3,2,0,1,5,1,1,2,8,3,0,3,6,6>>),
    Str(<<4,5,3,2,0,1,5,1,1,2,8,3,0,3,6,7>>),
    Str(<<5,5,5,5,5,5,5,5,5,5,5,5,4,4,4,4>>),
    Str(<<1,2,3,4,5,6,7,8,9,0,1,2,3,4,5,6>>),
    Str(<<3,7,2,4,4,9,6,3,5,3,9,8,4,3,2>>),
    Str(<<3,4,0,0,0,0,0,0,5,0,0,0,0,0,9>>),
    Str(<<4,0,0,0,0,0,2,0,0,0,0,1,8>>),
    Str(<<4,1,1,1,1,1,1,1,1,1,1,1>>),
    Str(<<4,0,0,0,0,0,0,0,0,0,0,0>>),
    Str(<<4,0,0,0,0,0,0,0,0,0,0,0,0,0>>),
    Str(<<4,5,3,2,0,1,5,1,1,2,8,3,0,3,6,6,1>>),
    <<>> }

\* Strings of permitted length that are not all digits.
NonDigitVectors == {
    [i \in 1..16 |-> " "],
    [i \in 1..16 |-> IF i = 16 THEN "a" ELSE "0"],
    [i \in 1..13 |-> IF i = 5 THEN " " ELSE "0"] }

\* "4", then zeros, then every tail of TailLen digits.
GenCard(n, t) ==
    [i \in 1..n |-> IF i > n - TailLen THEN DigitChars[t[i - (n - TailLen)] + 1]
                    ELSE IF i = 1 THEN "4" ELSE "0"]

Generated == { GenCard(n, t) : n \in 12..MaxLen, t \in [1..TailLen -> 0..9] }

CardNumbers == Vectors \cup NonDigitVectors \cup Generated

\* The numbers of the tests alone.
SampleCards == Vectors \cup NonDigitVectors

\* The numbers the unit tests pass to validate twice.
RepeatedCards == {
    Str(<<4,5,3,2,0,1,5,1,1,2,8,3,0,3,6,6>>),
    Str(<<4,5,3,2,0,1,5,1,1,2,8,3,0,3,6,7>>),
    Str(<<4,1,1,1,1,1,1,1,1,1,1,1,1,1,1,2>>),
    Str(<<4,0,0,0,0,0,0,0,0,0,0,0>>),
    Str(<<4,0,0,0,0,0,0,0,0,0,0,0,0,0>>),
    Str(<<4,5,3,2,0,1,5,1,1,2,8,3,0,3,6,6,1>>) }

\* Below the gate's minimum; before, in and after the year the clock reads.
ExpiryYears == {MinExpiryYear - 1, BaseYear - 1, BaseYear, BaseYear + 1}

ExpiryMonths == (MinExpiryMonth - 1)..(MaxExpiryMonth + 1)

\* String(n) for a natural number, as the tests build their query strings.
RECURSIVE toString(_)
toString(n) ==
    IF n < 10 THEN <<DigitChars[n + 1]>>
    ELSE Append(toString(n \div 10), DigitChars[(n % 10) + 1])

RawYears == { toString(y) : y \in ExpiryYears }
RawMonths == { toString(m) : m \in ExpiryMonths }

\* The empty string and a string that is not a number.
Malformed == { <<>>, <<"a", "b", "c">> }

Query(cn, y, m) == [cardNumber |-> cn, expiryYear |-> y, expiryMonth |-> m]

\* The query with the parameters ks alone.
Restrict(q, ks) == [k \in DOMAIN q \cap ks |-> q[k]]

NoQuery == Restrict(Query(<<>>, <<>>, <<>>), {})

\* Every card number with numeric years and months.
NumericQueries ==
    { Query(cn, y, m) : cn \in CardNumbers, y \in RawYears, m \in RawMonths }

\* The tests' card numbers with every year and month, each parameter sent
\* or not, with and without an unknown parameter.
SampleQueries ==
    { Restrict([k \in Properties \cup {ExtraParams[1]} |->
                    IF k = ExtraParams[1] THEN <<"a">>
                    ELSE Query(cn, y, m)[k]], ks) :
        cn \in SampleCards,
        y \in RawYears \cup Malformed,
        m \in RawMonths \cup Malformed,
        ks \in SUBSET (Properties \cup {ExtraParams[1]}) }

\* Years and months that are not whole: a year after the clock's, months
\* below, within and above 1..12.
FractionalYears == { toString(BaseYear + 5) \o <<".", "5">> }

FractionalMonths == { toString(m) \o <<".", "5">> : m \in {0, 1, 11, 12} }

\* A card that passes and one that fails the Luhn step, with a year or a
\* month that is not whole.
FractionalQueries ==
    { Query(cn, y, m) :
        cn \in { Str(<<4,1,1,1,1,1,1,1,1,1,1,1,1,1,1,1>>),
                 Str(<<4,1,1,1,1,1,1,1,1,1,1,1,1,1,1,2>>) },
        y \in RawYears \cup FractionalYears,
        m \in RawMonths \cup FractionalMonths }
    \ NumericQueries

\* q with parameter k sent a second time, with value v.
repeated(q, k, v) ==
    [j \in DOMAIN q \cup {second(k)} |-> IF j = second(k) THEN v ELSE q[j]]

\* A request that would be Valid, with one parameter sent twice: the same
\* value again, or another one.
RepeatedQueries ==
    { repeated(Query(Str(<<4,1,1,1,1,1,1,1,1,1,1,1,1,1,1,1>>),
                     toString(BaseYear + 1), toString(MaxExpiryMonth)),
               k, v) :
        k \in Properties, v \in {toString(MaxExpiryMonth), <<"a">>} }

Methods == {"GET", "POST", "PUT", "PATCH", "DELETE"}

\* Errors that are neither a CardValidationException nor a
\* BadRequestException.
NoFault == [error |-> "", message |-> ""]

\* What undefined.length raises.
LengthOfUndefined ==
    [error |-> "TypeError",
     message |-> "Cannot read properties of undefined (reading 'length')"]

Faults == {
    LengthOfUndefined,
    [error |-> "Error", message |-> "connect ECONNREFUSED 127.0.0.1:5432"] }

\* What `new Date()` can read first: getFullYear() and getMonth() in 0..11.
NowYears == {BaseYear}
NowMonths == 0..11

\* The date k months after d.
After(d, k) ==
    LET t == 12 * d[1] + d[2] + k IN <<t \div 12, t % 12>>

\* What `new Date()` can read when the date is c; <<>> is a date nothing
\* has read yet.
Readings(c) == IF c = <<>> THEN NowYears \X NowMonths ELSE {c}

\* The date a while after the date is c.
Later(c) ==
    IF c = <<>> THEN {<<>>} ELSE { After(c, k) : k \in 0..MaxElapsed }

(***************************************************************************)
(* The handler's result and the responses.                                 *)
(***************************************************************************)
NoResult ==
    [kind |-> "none", data |-> FALSE, error |-> "", message |-> "",
     messages |-> <<>>]

Returned(d) ==
    [kind |-> "return", data |-> d, error |-> "", message |-> "",
     messages |-> <<>>]

\* throw new Error(message)
CardValidationExceptionAsError(m) ==
    [kind |-> "throw", data |-> FALSE, error |-> "Error", message |-> m,
     messages |-> <<>>]

\* throw new CardValidationException(message)
CardValidationException(m) ==
    [kind |-> "throw", data |-> FALSE,
     error |-> "CardValidationException", message |-> m, messages |-> <<>>]

\* The ValidationPipe's BadRequestException: getResponse().message is the
\* list of the violated constraints' messages.
BadRequestException(ms) ==
    [kind |-> "throw", data |-> FALSE, error |-> "BadRequestException",
     message |-> "Bad Request Exception", messages |-> ms]

\* An error of any other class.
Thrown(f) ==
    [kind |-> "throw", data |-> FALSE, error |-> f.error,
     message |-> f.message, messages |-> <<>>]

\* The code and the message beside valid, without the error object.
ErrorBodyFlat(code, m) == [valid |-> FALSE, code |-> code, message |-> m]

ErrorBody(code, m) ==
    [valid |-> FALSE, error |-> [code |-> code, message |-> m]]

\* The router's answer to a request no route matches.
NotFound(m) ==
    [status |-> 404,
     body |-> [statusCode |-> 404,
               message |-> "Cannot " \o m \o " /cards/validate",
               error |-> "Not Found"]]

\* What the observable returned by intercept has emitted: nothing yet, a
\* value, or the null of `of(null)`.
NotEmitted == [kind |-> "none"]

Emitted(v) == [kind |-> "value", body |-> v]

Null == [kind |-> "null"]

\* The body of response.send() without an argument.
EmptyBody == [empty |-> TRUE]

\* A request to /cards/validate: the DTO does not exist before the pipe.
HttpInit ==
    /\ caller = "http"
    /\ \/ method = "GET" /\ query \in NumericQueries /\ fault = NoFault
       \/ method = "GET" /\ query \in FractionalQueries /\ fault = NoFault
       \/ method = "GET" /\ query \in RepeatedQueries /\ fault = NoFault
       \/ method \in Methods /\ query \in SampleQueries /\ fault = NoFault
       \/ method = "GET" /\ query \in SampleQueries /\ fault \in Faults
    /\ cardNumber = <<>>
    /\ expiryYear = Undefined
    /\ expiryMonth = Undefined
    /\ remaining = 0
    /\ pc = "route"

\* service.validate(dto), as the unit tests call it, once or repeatedly.
DirectInit ==
    /\ caller = "direct"
    /\ method = "-"
    /\ query = NoQuery
    /\ fault = NoFault
    /\ cardNumber \in CardNumbers
    /\ expiryYear \in ExpiryYears
    /\ expiryMonth \in ExpiryMonths
    /\ remaining = IF cardNumber \in RepeatedCards THEN MaxCalls - 1 ELSE 0
    /\ pc = "validateCardNumberLength"

Init ==
    /\ HttpInit \/ DirectInit
    /\ clock = <<>>
    /\ currentDate = <<>>
    /\ calls = <<>>
    /\ result = NoResult
    /\ responses = <<>>
    /\ emitted = NotEmitted
    /\ others = <<>>
    /\ previous = <<>>

\* Where a throw of validate goes, and where its return goes.
onThrow == IF caller = "http" THEN "catchError" ELSE "done"
onReturn == IF caller = "http" THEN "map" ELSE "done"

(***************************************************************************)
(* The router: CardsController declares @Get('validate') and nothing else  *)
(* on this path.                                                           *)
(***************************************************************************)
\* @All('validate')
routedAll(m) == TRUE

routed(m) == m = "GET"

route ==
    /\ pc = "route"
    /\ IF routed(method)
       THEN /\ pc' = "pipe"
            /\ UNCHANGED responses
       ELSE /\ responses' = Append(responses, NotFound(method))
            /\ pc' = "responded"
    /\ UNCHANGED <<request, others, emitted, remaining, cardDto, clock,
                   currentDate, calls, result, previous>>

(***************************************************************************)
(* ValidationPipe on CardValidationRequestDto, then the controller calls   *)
(* cardsService.validate(card).                                            *)
(***************************************************************************)
ValidationPipe ==
    /\ pc = "pipe"
    /\ LET vs == violations(query) IN
         IF vs = <<>>
         THEN /\ cardNumber' = stringProperty(query, "cardNumber")
              /\ expiryYear' = numberProperty(query, "expiryYear")
              /\ expiryMonth' = numberProperty(query, "expiryMonth")
              /\ pc' = "validateCardNumberLength"
              /\ UNCHANGED result
         ELSE /\ pc' = "catchError"
              /\ result' = BadRequestException(vs)
              /\ UNCHANGED cardDto
    /\ UNCHANGED <<request, others, emitted, remaining, clock, currentDate,
                   calls, responses, previous>>

\* The handler raises an error of another class.
unexpectedError ==
    /\ pc = "validateCardNumberLength"
    /\ caller = "http"
    /\ fault # NoFault
    /\ result' = Thrown(fault)
    /\ pc' = "catchError"
    /\ UNCHANGED <<request, others, emitted, remaining, cardDto, clock,
                   currentDate, calls, responses, previous>>

(***************************************************************************)
(* CardsValidatorService.validate: three steps, each throws or falls       *)
(* through to the next; `return true` after the last.                      *)
(***************************************************************************)
validateCardNumberLength ==
    /\ pc = "validateCardNumberLength"
    /\ calls' = Append(calls, "validateCardNumberLength")
    /\ IF cardNumber = UndefinedString
       THEN /\ result' = Thrown(LengthOfUndefined)
            /\ pc' = onThrow
       ELSE IF ~lengthPermitted(cardNumber)
       THEN /\ result' = CardValidationException(WRONG_LENGTH)
            /\ pc' = onThrow
       ELSE /\ pc' = "validateDate"
            /\ UNCHANGED result
    /\ UNCHANGED <<request, others, emitted, remaining, cardDto, clock,
                   currentDate, responses, previous>>

validateDate ==
    /\ pc = "validateDate"
    /\ calls' = Append(calls, "validateDate")
    /\ \E d \in Readings(clock) :
         /\ clock' = d
         /\ currentDate' = d
         /\ IF ~isValid(d, expiryYear, expiryMonth)
            THEN /\ result' = CardValidationException(EXPIRED)
                 /\ pc' = onThrow
            ELSE /\ pc' = "validateCardNumber"
                 /\ UNCHANGED result
    /\ UNCHANGED <<request, others, emitted, remaining, cardDto, responses,
                   previous>>

validateCardNumber ==
    /\ pc = "validateCardNumber"
    /\ calls' = Append(calls, "validateCardNumber")
    /\ IF ~luhnPasses(cardNumber)
       THEN /\ result' = CardValidationException(LUHN_FAILED)
            /\ pc' = onThrow
       ELSE /\ result' = Returned(TRUE)
            /\ pc' = onReturn
    /\ UNCHANGED <<request, others, emitted, remaining, cardDto, clock,
                   currentDate, responses, previous>>

\* The caller calls validate again with the same DTO, at once or a while
\* later.
callAgain ==
    /\ pc = "done"
    /\ remaining > 0
    /\ remaining' = remaining - 1
    /\ previous' = Append(previous, [clock |-> clock, calls |-> calls,
                                     result |-> result])
    /\ clock' \in Later(clock)
    /\ currentDate' = <<>>
    /\ calls' = <<>>
    /\ result' = NoResult
    /\ pc' = "validateCardNumberLength"
    /\ UNCHANGED <<request, others, emitted, cardDto, responses>>

(***************************************************************************)
(* CardsResponseInterceptor.intercept: map on a value, catchError on a     *)
(* throw.  A GET handler's value is sent with status 200.                  *)
(***************************************************************************)
\* The handler's value passed through.
mapDataRaw(data) == [raw |-> data]

mapData(data) == IF data = TRUE THEN [valid |-> TRUE] ELSE [raw |-> data]

map ==
    /\ pc = "map"
    /\ result.kind = "return"
    /\ emitted' = Emitted(mapData(result.data))
    /\ pc' = "reply"
    /\ UNCHANGED <<request, others, responses, remaining, cardDto, clock,
                   currentDate, calls, result, previous>>

\* One message for every validation failure.
errorResponseGeneric(error) ==
    IF error.error = "CardValidationException"
    THEN [status |-> 400, body |-> ErrorBody(400, "Validation failed")]
    ELSE IF error.error = "BadRequestException"
    THEN [status |-> 400, body |-> ErrorBody(400, join(error.messages))]
    ELSE [status |-> 500, body |-> ErrorBody(500, INTERNAL_SERVER_ERROR)]

\* The error's own message sent with the 500.
errorResponseLeaky(error) ==
    IF error.error = "CardValidationException"
    THEN [status |-> 400, body |-> ErrorBody(400, error.message)]
    ELSE IF error.error = "BadRequestException"
    THEN [status |-> 400, body |-> ErrorBody(400, join(error.messages))]
    ELSE [status |-> 500, body |-> ErrorBody(500, error.message)]

errorResponse(error) ==
    IF error.error = "CardValidationException"
    THEN [status |-> 400, body |-> ErrorBody(400, error.message)]
    ELSE IF error.error = "BadRequestException"
    THEN [status |-> 400, body |-> ErrorBody(400, join(error.messages))]
    ELSE [status |-> 500, body |-> ErrorBody(500, INTERNAL_SERVER_ERROR)]

\* Each branch writes with response.status(..).json(..); `return of(null)`
\* follows them.
catchError ==
    /\ pc = "catchError"
    /\ result.kind = "throw"
    /\ responses' = Append(responses, errorResponse(result))
    /\ emitted' = Null
    /\ pc' = "reply"
    /\ UNCHANGED <<request, others, remaining, cardDto, clock, currentDate,
                   calls, result, previous>>

(***************************************************************************)
(* The framework answers with what the observable emitted, under the GET   *)
(* handler's status 200: response.status(200), then response.send() for a  *)
(* null and response.json(value) for a value.  Once a response has been    *)
(* sent its status line and body are on the wire: setting the status       *)
(* changes nothing the client receives and ending a finished response      *)
(* writes nothing.                                                         *)
(***************************************************************************)
\* A second response written after the first.
sendAlways(rs, status, body) ==
    Append(rs, [status |-> status, body |-> body])

send(rs, status, body) ==
    IF rs # <<>> THEN rs
    ELSE Append(rs, [status |-> status, body |-> body])

reply ==
    /\ pc = "reply"
    /\ responses' = send(responses, 200,
                         IF emitted = Null THEN EmptyBody ELSE emitted.body)
    /\ pc' = "responded"
    /\ UNCHANGED <<request, others, emitted, remaining, cardDto, clock,
                   currentDate, calls, result, previous>>

Next ==
    \/ route
    \/ ValidationPipe
    \/ unexpectedError
    \/ validateCardNumberLength
    \/ validateDate
    \/ validateCardNumber
    \/ callAgain
    \/ map
    \/ catchError
    \/ reply

Spec == Init /\ [][Next]_vars

(***************************************************************************)
(* validate alone, called on every DTO whose cardNumber is a string and    *)
(* whose year and month are numbers: whole, not whole, or NaN.  The code   *)
(* is synchronous: a call that has begun runs to its return or its throw,  *)
(* and a caller that has another call to make makes it.                    *)
(***************************************************************************)
NumericYears == ExpiryYears \cup {Fraction(BaseYear + 5, 5), NaN}

NumericMonths ==
    { MinExpiryMonth - 1, MinExpiryMonth, MaxExpiryMonth, MaxExpiryMonth + 1,
      Fraction(MaxExpiryMonth - 1, 5), NaN }

ValidateInit ==
    /\ caller = "direct"
    /\ method = "-"
    /\ query = NoQuery
    /\ fault = NoFault
    /\ cardNumber \in SampleCards
    /\ expiryYear \in NumericYears
    /\ expiryMonth \in NumericMonths
    /\ remaining = IF cardNumber \in RepeatedCards THEN MaxCalls - 1 ELSE 0
    /\ pc = "validateCardNumberLength"
    /\ clock = <<>>
    /\ currentDate = <<>>
    /\ calls = <<>>
    /\ result = NoResult
    /\ responses = <<>>
    /\ emitted = NotEmitted
    /\ others = <<>>
    /\ previous = <<>>

ValidateNext ==
    \/ validateCardNumberLength
    \/ validateDate
    \/ validateCardNumber
    \/ callAgain

Validate ==
    /\ ValidateInit
    /\ [][ValidateNext]_vars
    /\ WF_vars(ValidateNext)

(***************************************************************************)
(* Several calls of validate in progress on the one service instance, as   *)
(* concurrent requests make them.  One call runs at a time; the others     *)
(* wait where they are.  The steps of the calls interleave in every order, *)
(* step by step, which includes the orders the event loop produces.        *)
(***************************************************************************)
\* The DTO, the position and the locals of a call.
CallOf(cn, y, m) ==
    [cardNumber |-> cn, expiryYear |-> y, expiryMonth |-> m,
     pc |-> "validateCardNumberLength", currentDate |-> <<>>,
     calls |-> <<>>, result |-> NoResult]

\* Of the running call.
Running ==
    [cardNumber |-> cardNumber, expiryYear |-> expiryYear,
     expiryMonth |-> expiryMonth, pc |-> pc, currentDate |-> currentDate,
     calls |-> calls, result |-> result]

\* The tests' concurrent requests: a valid card, one that fails the Luhn
\* step, one of wrong length; an expiry this year and one next year.
ConcurrentCalls ==
    { CallOf(cn, y, m) :
        cn \in { Str(<<4,5,3,2,0,1,5,1,1,2,8,3,0,3,6,6>>),
                 Str(<<4,1,1,1,1,1,1,1,1,1,1,1,1,1,1,2>>),
                 Str(<<4,1,1,1,1,1,1,1,1,1,1,1>>) },
        y \in {BaseYear, BaseYear + 1},
        m \in {6} }

ConcurrentInit ==
    /\ caller = "direct"
    /\ method = "-"
    /\ query = NoQuery
    /\ fault = NoFault
    /\ \E c \in ConcurrentCalls :
         /\ cardNumber = c.cardNumber
         /\ expiryYear = c.expiryYear
         /\ expiryMonth = c.expiryMonth
         /\ pc = c.pc
         /\ currentDate = c.currentDate
         /\ calls = c.calls
         /\ result = c.result
    /\ \E n \in 1..(MaxConcurrent - 1) : others \in [1..n -> ConcurrentCalls]
    /\ remaining = 0
    /\ clock = <<>>
    /\ responses = <<>>
    /\ emitted = NotEmitted
    /\ previous = <<>>

\* The running call waits and call i of the others runs on.
resume(i) ==
    /\ caller = "direct"
    /\ others[i].pc # "done"
    /\ others' = [others EXCEPT ![i] = Running]
    /\ cardNumber' = others[i].cardNumber
    /\ expiryYear' = others[i].expiryYear
    /\ expiryMonth' = others[i].expiryMonth
    /\ pc' = others[i].pc
    /\ currentDate' = others[i].currentDate
    /\ calls' = others[i].calls
    /\ result' = others[i].result
    /\ UNCHANGED <<request, remaining, clock, responses, emitted, previous>>

interleave == \E i \in 1..Len(others) : resume(i)

ConcurrentNext ==
    \/ validateCardNumberLength
    \/ validateDate
    \/ validateCardNumber
    \/ interleave

Concurrent == ConcurrentInit /\ [][ConcurrentNext]_vars

(***************************************************************************)
(* Shorthands for the properties.                                          *)
(***************************************************************************)
IsDigits(cn) == \A i \in 1..Len(cn) : IsDigitChar(cn[i])

\* validate has just finished: it returned or it threw, and its caller has
\* the result in hand.
Finished == pc \in {"map", "catchError", "done"} /\ calls # <<>>

Valid == Finished /\ result.kind = "return" /\ result.data = TRUE

Invalid(reason) ==
    /\ Finished
    /\ result.kind = "throw"
    /\ result.error = "CardValidationException"
    /\ result.message = reason

\* The current date as the specification states it: year Y, 1-based month M.
Y == currentDate[1]
M == currentDate[2] + 1

TypeOK ==
    /\ pc \in {"route", "pipe", "validateCardNumberLength", "validateDate",
               "validateCardNumber", "map", "catchError", "reply",
               "responded", "done"}
    /\ caller = "direct" => responses = <<>>
    /\ caller = "http" => previous = <<>>
    /\ remaining \in 0..(MaxCalls - 1)
    /\ Len(previous) + remaining <= MaxCalls - 1
    /\ currentDate # <<>> => currentDate = clock
    /\ Len(responses) <= 1

(***************************************************************************)
(* The rules as the specification words them, for digit strings.           *)
(***************************************************************************)
DigitValue == [c \in {DigitChars[k] : k \in 1..10} |->
                  CHOOSE d \in 0..9 : DigitChars[d + 1] = c]

DigitAt(cn, i) == DigitValue[cn[i + 1]]

\* t(d) at position i, 0 = leftmost: d at odd i; at even i, 2d or 2d - 9.
Transformed(d, i) ==
    IF i % 2 = 1 THEN d ELSE IF 2 * d <= 9 THEN 2 * d ELSE 2 * d - 9

RECURSIVE TransformedSum(_, _)
TransformedSum(cn, n) ==
    IF n = 0 THEN 0
    ELSE TransformedSum(cn, n - 1) + Transformed(DigitAt(cn, n - 1), n - 1)

LuhnRule(cn) == TransformedSum(cn, Len(cn)) % 10 = 0

\* The canonical Luhn algorithm: j counts from the right, j = 0 the check
\* digit, left as it is; the digits at odd j are doubled.
RECURSIVE CanonicalSum(_, _)
CanonicalSum(cn, j) ==
    IF j = Len(cn) THEN 0
    ELSE LET d == DigitAt(cn, Len(cn) - 1 - j)
             t == IF j % 2 = 0 THEN d
                  ELSE ((2 * d) \div 10) + ((2 * d) % 10)
         IN  t + CanonicalSum(cn, j + 1)

CanonicalLuhn(cn) == CanonicalSum(cn, 0) % 10 = 0

\* Not expired, and expired, at year y and 1-based month m.
NotBefore(year, month, y, m) == year > y \/ (year = y /\ month >= m)

Before(year, month, y, m) == year < y \/ (year = y /\ month < m)

AllSteps == <<"validateCardNumberLength", "validateDate", "validateCardNumber">>

Entered(step) == \E i \in 1..Len(calls) : calls[i] = step

PermittedLength == Len(cardNumber) \in {13, 15, 16}

\* A CardValidationRequest: year >= 1900, month in 1..12.
WellFormed == expiryYear >= 1900 /\ expiryMonth \in 1..12

\* The year and the month are whole numbers.
WholeExpiry == ~IsFraction(expiryYear) /\ ~IsFraction(expiryMonth)

\* The Luhn step was reached and passed, or was reached and failed.
LuhnPassed == Entered("validateCardNumber") /\ Valid

LuhnFailed == Entered("validateCardNumber") /\ Invalid(LUHN_FAILED)

C2_FirstFailureOnly ==
    /\ Len(calls) <= 3
    /\ \A i \in 1..Len(calls) : calls[i] = AllSteps[i]
    /\ (Finished /\ ~PermittedLength) =>
          /\ Invalid(WRONG_LENGTH)
          /\ calls = <<"validateCardNumberLength">>
          /\ currentDate = <<>>
    /\ ( /\ Finished
         /\ PermittedLength
         /\ WellFormed
         /\ Before(expiryYear, expiryMonth, Y, M)
         /\ IsDigits(cardNumber)
         /\ ~LuhnRule(cardNumber) ) =>
          /\ Invalid(EXPIRED)
          /\ calls = <<"validateCardNumberLength", "validateDate">>

(***************************************************************************)
(* C3: for every card number whose length is not 13, 15 or 16, length 0    *)
(* included, validate fails with WRONG_LENGTH, whatever the expiry date    *)
(* and whether or not the digits satisfy the Luhn rule.                    *)
(***************************************************************************)
C3_WrongLength ==
    (Finished /\ Len(cardNumber) \notin {13, 15, 16}) => Invalid(WRONG_LENGTH)

C3_Witness ==
    /\ Invalid(WRONG_LENGTH)
    /\ Len(cardNumber) = 17
    /\ IsDigits(cardNumber)
    /\ LuhnRule(cardNumber)
    /\ expiryYear > BaseYear

(***************************************************************************)
(* C4: with the current date year Y and 1-based month M, for every card    *)
(* number of permitted length and every expiry before the current month    *)
(* (the month just before it included), validate fails with EXPIRED.       *)
(***************************************************************************)
C4_ExpiredRejected ==
    ( /\ Finished
      /\ PermittedLength
      /\ IsDigits(cardNumber)
      /\ WellFormed
      /\ Before(expiryYear, expiryMonth, Y, M) ) => Invalid(EXPIRED)

(***************************************************************************)
(* C5: with the current date year Y and 1-based month M, the expiry step   *)
(* passes for every expiry with expiryYear > Y, or expiryYear = Y and      *)
(* expiryMonth >= M: no EXPIRED, and the Luhn step is reached.             *)
(***************************************************************************)
C5_NotExpiredPasses ==
    ( /\ Entered("validateDate")
      /\ pc # "validateDate"
      /\ NotBefore(expiryYear, expiryMonth, Y, M) ) =>
        /\ ~Invalid(EXPIRED)
        /\ pc = "validateCardNumber" \/ Entered("validateCardNumber")

C5_Witness ==
    /\ Entered("validateCardNumber")
    /\ expiryYear = Y
    /\ expiryMonth = M
    /\ M = 12

(***************************************************************************)
(* C6: for every digit string of length 13, 15 or 16, read left to right,  *)
(* the checksum step passes exactly when the sum of t(d_i) is divisible by *)
(* 10; and what the code adds for a digit d with 2d > 9 at an even index   *)
(* equals 2d - 9 and the digit sum of 2d.                                  *)
(***************************************************************************)
\* What the reducer adds for d at an even index, when 2d > 9.
ReductionIdentity ==
    \A d \in 0..9 :
        2 * d > 9 =>
          /\ reducer(0, d, 0) = 2 * d - 9
          /\ reducer(0, d, 0) = ((2 * d) \div 10) + ((2 * d) % 10)

C6_LuhnRule ==
    /\ ( /\ Finished
         /\ Entered("validateCardNumber")
         /\ IsDigits(cardNumber) ) =>
          LET rule == LuhnRule(cardNumber) IN
            /\ LuhnPassed <=> rule
            /\ LuhnFailed <=> ~rule
    /\ ReductionIdentity

C6_Witness ==
    /\ LuhnPassed
    /\ Len(cardNumber) = 13
    /\ IsDigits(cardNumber)
    /\ DigitAt(cardNumber, 12) > 4

(***************************************************************************)
(* C7: the Luhn step on the literal vectors: 4111111111111111 passes,      *)
(* 4111111111111112 fails, 0000000000000000 passes, 1111111111111111       *)
(* fails, and 4532015112830366, 5555555555554444, 372449635398432,         *)
(* 340000005000009 and 4000002000018 pass.                                 *)
(***************************************************************************)
PassingVectors == {
    Str(<<4,1,1,1,1,1,1,1,1,1,1,1,1,1,1,1>>),
    Str(<<0,0,0,0,0,0,0,0,0,0,0,0,0,0,0,0>>),
    Str(<<4,5,3,2,0,1,5,1,1,2,8,3,0,3,6,6>>),
    Str(<<5,5,5,5,5,5,5,5,5,5,5,5,4,4,4,4>>),
    Str(<<3,7,2,4,4,9,6,3,5,3,9,8,4,3,2>>),
    Str(<<3,4,0,0,0,0,0,0,5,0,0,0,0,0,9>>),
    Str(<<4,0,0,0,0,0,2,0,0,0,0,1,8>>) }

FailingVectors == {
    Str(<<4,1,1,1,1,1,1,1,1,1,1,1,1,1,1,2>>),
    Str(<<1,1,1,1,1,1,1,1,1,1,1,1,1,1,1,1>>) }

C7_Vectors ==
    (Finished /\ Entered("validateCardNumber")) =>
      /\ cardNumber \in PassingVectors => LuhnPassed
      /\ cardNumber \in FailingVectors => LuhnFailed

Amex15 == Str(<<3,4,0,0,0,0,0,0,5,0,0,0,0,0,9>>)

C7_Witness ==
    /\ LuhnPassed
    /\ cardNumber = Amex15

(***************************************************************************)
(* C8: for every digit string of length 13, 15 or 16 the service's Luhn    *)
(* verdict equals the verdict of the canonical Luhn algorithm.             *)
(***************************************************************************)
C8_CanonicalLuhn ==
    ( /\ Finished
      /\ Entered("validateCardNumber")
      /\ IsDigits(cardNumber) ) =>
        (LuhnPassed <=> CanonicalLuhn(cardNumber))

(***************************************************************************)
(* C9: the reversing and the non-reversing Luhn variants give the same     *)
(* verdict on every 13- and 15-character string, and different verdicts on *)
(* a 16-digit string: 4111111111111111 passes one and fails the other.     *)
(***************************************************************************)
Visa16 == Str(<<4,1,1,1,1,1,1,1,1,1,1,1,1,1,1,1>>)

C9_Variants ==
    (Finished /\ Entered("validateCardNumber")) =>
      /\ Len(cardNumber) \in {13, 15} =>
           (LuhnPassed <=> luhnPassesReversed(cardNumber))
      /\ cardNumber = Visa16 =>
           (LuhnPassed /\ ~luhnPassesReversed(cardNumber))

C9_Witness ==
    /\ LuhnFailed
    /\ Len(cardNumber) = 16
    /\ IsDigits(cardNumber)
    /\ luhnPassesReversed(cardNumber)

(***************************************************************************)
(* C10: whenever the core returns Valid for a GET /cards/validate request, *)
(* the response has status 200 and the body {valid: true}, with valid as   *)
(* its only key.                                                           *)
(***************************************************************************)
C10_SuccessResponse ==
    (caller = "http" /\ pc = "responded" /\ result.kind = "return") =>
      /\ Len(responses) = 1
      /\ responses[1].status = 200
      /\ DOMAIN responses[1].body = {"valid"}
      /\ responses[1].body.valid = TRUE

C10_Witness ==
    /\ caller = "http"
    /\ pc = "responded"
    /\ result = Returned(TRUE)
    /\ responses = <<[status |-> 200, body |-> [valid |-> TRUE]]>>

(***************************************************************************)
(* Shorthands for the properties about responses.                          *)
(***************************************************************************)
Responded == caller = "http" /\ pc = "responded"

Get == Responded /\ method = "GET"

Response == responses[1]

\* The step at which validate stopped.
LastStep == calls[Len(calls)]

CoreFailure ==
    /\ calls # <<>>
    /\ result.kind = "throw"
    /\ result.error = "CardValidationException"

\* The reason text of each step, as the specification gives it.
ReasonOf == [validateCardNumberLength |-> "Wrong card number length",
             validateDate |-> "Card has expired",
             validateCardNumber |->
                 "Invalid card number (failed Luhn algorithm check)"]

(***************************************************************************)
(* C11: every core validation failure of a request is answered with status *)
(* 400 and the body {valid: false, error: {code: 400, message}}, message   *)
(* being the reason text of the step that failed; the three reason texts   *)
(* are pairwise distinct, so the response tells which step failed.         *)
(***************************************************************************)
C11_CoreFailureResponse ==
    (Get /\ CoreFailure) =>
      /\ responses =
           <<[status |-> 400,
              body |-> [valid |-> FALSE,
                        error |-> [code |-> 400,
                                   message |-> ReasonOf[LastStep]]]]>>
      /\ result.message = ReasonOf[LastStep]
      /\ \A a, b \in DOMAIN ReasonOf :
           ReasonOf[a] = ReasonOf[b] => a = b
      /\ \A a \in DOMAIN ReasonOf :
           Response.body.error.message = ReasonOf[a] => LastStep = a

C11_Witness ==
    /\ Get
    /\ CoreFailure
    /\ LastStep = "validateDate"
    /\ Response.status = 400
    /\ Response.body.error.message = "Card has expired"

\* The handler threw something that is neither of the two known classes.
OtherFailure ==
    /\ result.kind = "throw"
    /\ result.error \notin {"CardValidationException", "BadRequestException"}

(***************************************************************************)
(* C12: a failure that is neither a core validation failure nor a bad      *)
(* request is answered with status 500 and the one constant body           *)
(* {valid: false, error: {code: 500, message: 'Internal Server Error'}}:   *)
(* every such failure gets this same body, whatever the error was.         *)
(***************************************************************************)
C12_UnexpectedFailure ==
    (Get /\ OtherFailure) =>
      responses =
        <<[status |-> 500,
           body |-> [valid |-> FALSE,
                     error |-> [code |-> 500,
                                message |-> "Internal Server Error"]]]>>

C12_Witness ==
    /\ Get
    /\ OtherFailure
    /\ result.error = "TypeError"
    /\ result.message # "Internal Server Error"
    /\ Response.status = 500

(***************************************************************************)
(* C13: every response to a GET request has the uniform envelope: valid is *)
(* true exactly when the status is 200; a body with valid false has        *)
(* exactly the keys valid and error, error has exactly the keys code and   *)
(* message, code is the status, which is 400 or 500, and message is not    *)
(* empty; a body with valid true has no other key.                         *)
(***************************************************************************)
C13_Envelope ==
    Get =>
      /\ Len(responses) = 1
      /\ "valid" \in DOMAIN Response.body
      /\ Response.body.valid \in BOOLEAN
      /\ Response.body.valid <=> Response.status = 200
      /\ Response.body.valid => DOMAIN Response.body = {"valid"}
      /\ ~Response.body.valid =>
           /\ DOMAIN Response.body = {"valid", "error"}
           /\ DOMAIN Response.body.error = {"code", "message"}
           /\ Response.body.error.code = Response.status
           /\ Response.status \in {400, 500}
           /\ Response.body.error.message # ""

\* A response of the gate that reports several messages.
C13_Witness ==
    /\ Get
    /\ Response.status = 400
    /\ result.error = "BadRequestException"
    /\ Len(result.messages) > 1
    /\ Response.body.valid = FALSE
    /\ Response.body.error.code = 400

(***************************************************************************)
(* The query as the specification reads it.                                *)
(***************************************************************************)
NonNumeric == <<"a", "b", "c">>

\* The numbers the numeric strings of the model were written from.
YearValue ==
    [r \in RawYears |-> CHOOSE y \in ExpiryYears : toString(y) = r]

MonthValue ==
    [r \in RawMonths |-> CHOOSE m \in ExpiryMonths : toString(m) = r]

MissingField == \E k \in Properties : ~Has(query, k)

BadYear ==
    /\ Has(query, "expiryYear")
    /\ \/ query.expiryYear = NonNumeric
       \/ query.expiryYear \in RawYears /\ YearValue[query.expiryYear] < 1900

BadMonth ==
    /\ Has(query, "expiryMonth")
    /\ \/ query.expiryMonth = NonNumeric
       \/ /\ query.expiryMonth \in RawMonths
          /\ MonthValue[query.expiryMonth] \notin 1..12

GoodYear ==
    /\ Has(query, "expiryYear")
    /\ query.expiryYear \in RawYears
    /\ YearValue[query.expiryYear] >= 1900

GoodMonth ==
    /\ Has(query, "expiryMonth")
    /\ query.expiryMonth \in RawMonths
    /\ MonthValue[query.expiryMonth] \in 1..12

NoExtras == DOMAIN query \subseteq Properties

GetRequest == caller = "http" /\ method = "GET"

CoreReasons == { ReasonOf[a] : a \in DOMAIN ReasonOf }

\* The gate refused the request and the interceptor answered 400.
RefusedByGate ==
    /\ calls = <<>>
    /\ result.kind = "throw"
    /\ result.error = "BadRequestException"
    /\ Len(responses) = 1
    /\ Response.status = 400
    /\ Response.body.valid = FALSE
    /\ Response.body.error.code = 400

(***************************************************************************)
(* C14: a GET request with a missing field, a non-numeric year or month, a *)
(* year below 1900 or a month outside 1..12 never enters validate and is   *)
(* answered by the gate with status 400 and a message that is not one of   *)
(* the core's reasons, also when its card number would fail a core check;  *)
(* a month of 13 alone is reported as 'expiryMonth must not be greater     *)
(* than 12'.                                                               *)
(***************************************************************************)
C14_GateBeforeCore ==
    (GetRequest /\ (MissingField \/ BadYear \/ BadMonth)) =>
      /\ calls = <<>>
      /\ pc \in {"route", "pipe", "catchError", "reply", "responded"}
      /\ pc = "responded" =>
           /\ RefusedByGate
           /\ Response.body.error.message \notin CoreReasons
           /\ (/\ NoExtras
               /\ ~MissingField
               /\ Len(query.cardNumber) <= 16
               /\ GoodYear
               /\ query.expiryMonth = <<"1", "3">>) =>
                Response.body.error.message =
                    "expiryMonth must not be greater than 12"

\* Month 13 with a card number of twelve digits.
C14_Witness ==
    /\ Get
    /\ RefusedByGate
    /\ NoExtras
    /\ ~MissingField
    /\ Len(query.cardNumber) = 12
    /\ GoodYear
    /\ query.expiryMonth = <<"1", "3">>
    /\ Response.body.error.message = "expiryMonth must not be greater than 12"

\* The constraints' messages in the order the DTO declares them.
DeclaredOrder ==
    <<CARD_NOT_DEFINED, CARD_NOT_STRING, TOO_LONG,
      YEAR_NOT_DEFINED, YEAR_EMPTY, YEAR_NOT_NUMBER, YEAR_TOO_LOW,
      MONTH_NOT_DEFINED, MONTH_EMPTY, MONTH_NOT_NUMBER, MONTH_TOO_LOW,
      MONTH_TOO_HIGH>>

\* The first message of DeclaredOrder that is among ms.
FirstViolated(ms) ==
    LET among(i) == \E j \in 1..Len(ms) : ms[j] = DeclaredOrder[i]
        first == CHOOSE i \in 1..Len(DeclaredOrder) :
                     among(i) /\ \A h \in 1..(i - 1) : ~among(h)
    IN DeclaredOrder[first]

(***************************************************************************)
(* C15: when a GET request violates several pre-validation constraints at  *)
(* once, the message of the 400 response is the message of the first       *)
(* violated constraint and nothing else.                                   *)
(***************************************************************************)
C15_FirstMessageOnly ==
    (Get /\ RefusedByGate /\ NoExtras /\ Len(result.messages) > 1) =>
      Response.body.error.message = FirstViolated(result.messages)

\* expiryMonth missing: the five messages joined.
C15_MissingMonth ==
    /\ Get
    /\ query = Restrict(Query(Str(<<4,1,1,1,1,1,1,1,1,1,1,1,1,1,1,1>>),
                              <<"2", "0", "2", "5">>, <<>>),
                        {"cardNumber", "expiryYear"})
    /\ Response.body.error.message =
         "expiryMonth should not be null or undefined;"
         \o "expiryMonth must not be greater than 12;"
         \o "expiryMonth must not be less than 1;"
         \o "expiryMonth must be a number conforming to the specified constraints;"
         \o "expiryMonth should not be empty"

OverLong == Has(query, "cardNumber") /\ Len(query.cardNumber) > 16

EmptyCardNumber ==
    /\ GetRequest
    /\ fault = NoFault
    /\ NoExtras
    /\ Has(query, "cardNumber")
    /\ query.cardNumber = <<>>
    /\ GoodYear
    /\ GoodMonth

(***************************************************************************)
(* C17: a GET request whose cardNumber is the empty string, with a         *)
(* well-formed year and month, is not refused by the gate: validate is     *)
(* entered, stops at its length step, and the response is 400 with the     *)
(* core's message 'Wrong card number length'.                              *)
(***************************************************************************)
C17_EmptyCardNumber ==
    EmptyCardNumber =>
      /\ result.error # "BadRequestException"
      /\ pc \in {"route", "pipe", "validateCardNumberLength", "catchError",
                 "reply", "responded"}
      /\ pc \in {"catchError", "reply", "responded"} =>
           /\ calls = <<"validateCardNumberLength">>
           /\ cardNumber = <<>>
           /\ result.error = "CardValidationException"
      /\ pc = "responded" =>
           responses =
             <<[status |-> 400,
                body |-> [valid |-> FALSE,
                          error |-> [code |-> 400,
                                     message |->
                                         "Wrong card number length"]]]>>

C17_Witness ==
    /\ EmptyCardNumber
    /\ pc = "responded"
    /\ calls = <<"validateCardNumberLength">>
    /\ Response.status = 400
    /\ Response.body.error.message = "Wrong card number length"

OtherMethod == caller = "http" /\ method \in {"POST", "PUT", "PATCH", "DELETE"}

(***************************************************************************)
(* C18: a POST, PUT, PATCH or DELETE request to /cards/validate is         *)
(* answered with status 404 whatever it carries; neither the gate nor      *)
(* validate ever runs for it.                                              *)
(***************************************************************************)
C18_GetOnly ==
    OtherMethod =>
      /\ pc \in {"route", "responded"}
      /\ calls = <<>>
      /\ result = NoResult
      /\ cardDto = <<<<>>, Undefined, Undefined>>
      /\ pc = "responded" =>
           /\ Len(responses) = 1
           /\ Response.status = 404

\* A POST that would be Valid as a GET.
C18_Witness ==
    /\ OtherMethod
    /\ method = "POST"
    /\ pc = "responded"
    /\ Response.status = 404
    /\ query = Query(Str(<<4,1,1,1,1,1,1,1,1,1,1,1,1,1,1,1>>),
                     toString(BaseYear + 1), toString(12))

\* The response to a GET request with query q when the clock reads d and no
\* other error occurs: the pipe, validate and the interceptor in one.
answer(q, d) ==
    IF violations(q) # <<>>
    THEN errorResponse(BadRequestException(violations(q)))
    ELSE IF ~lengthPermitted(q.cardNumber)
    THEN errorResponse(CardValidationException(WRONG_LENGTH))
    ELSE IF ~isValid(d, numberProperty(q, "expiryYear"),
                     numberProperty(q, "expiryMonth"))
    THEN errorResponse(CardValidationException(EXPIRED))
    ELSE IF ~luhnPasses(q.cardNumber)
    THEN errorResponse(CardValidationException(LUHN_FAILED))
    ELSE [status |-> 200, body |-> mapData(TRUE)]

\* The request without its unknown parameters.
Known == Restrict(query, Properties)

(***************************************************************************)
(* C19: unknown query parameters are ignored: a GET request that carries   *)
(* one gets the status and the body that the same request without it gets  *)
(* (at some reading of the clock).                                         *)
(***************************************************************************)
C19_ExtraIgnored ==
    (Get /\ fault = NoFault /\ ~NoExtras) =>
      \E d \in NowYears \X NowMonths : Response = answer(Known, d)

\* The model answers a request without unknown parameters as answer says.
AnswerAgrees ==
    (Get /\ fault = NoFault /\ NoExtras) =>
      \E d \in NowYears \X NowMonths : Response = answer(query, d)

\* A request that is Valid without its unknown parameter.
C19_Refused ==
    /\ Get
    /\ query = [cardNumber |-> Str(<<4,1,1,1,1,1,1,1,1,1,1,1,1,1,1,1>>),
                expiryYear |-> toString(BaseYear + 1),
                expiryMonth |-> toString(12),
                extraParam1 |-> <<"a">>]
    /\ Response.status = 400
    /\ Response.body.error.message = "property extraParam1 should not exist"
    /\ \A d \in NowYears \X NowMonths :
         answer(Known, d) = [status |-> 200, body |-> [valid |-> TRUE]]

\* The calls a direct caller has completed, the last one included.
Completed ==
    Append(previous, [clock |-> clock, calls |-> calls, result |-> result])

Repeated == caller = "direct" /\ pc = "done" /\ previous # <<>>

LaterDiffers ==
    /\ Repeated
    /\ Completed[1].clock # Completed[2].clock
    /\ Completed[1].result = Returned(TRUE)
    /\ Completed[2].result = CardValidationException(EXPIRED)

(***************************************************************************)
(* Entry errors on the digit strings of permitted length.                  *)
(***************************************************************************)
Digits == {DigitChars[k] : k \in 1..Len(DigitChars)}

DigitCards ==
    { cn \in CardNumbers : Len(cn) \in {13, 15, 16} /\ IsDigits(cn) }

\* cn with the digit at position i replaced by c.
Replaced(cn, i, c) == [cn EXCEPT ![i] = c]

\* cn with the digits at positions i and i + 1 swapped.
Swapped(cn, i) == [cn EXCEPT ![i] = cn[i + 1], ![i + 1] = cn[i]]

\* For each digit card: does the Luhn step refuse every string that differs
\* from it in exactly one digit?
SingleErrorsRefused ==
    [cn \in DigitCards |->
        \A i \in 1..Len(cn) : \A c \in Digits \ {cn[i]} :
            ~luhnPasses(Replaced(cn, i, c))]

(***************************************************************************)
(* C22: for every digit string of length 13, 15 or 16 that passes the Luhn *)
(* step, replacing the digit at any one position by any other digit gives  *)
(* a string that fails the Luhn step.                                      *)
(***************************************************************************)
C22_SingleDigitErrors ==
    (LuhnPassed /\ IsDigits(cardNumber)) => SingleErrorsRefused[cardNumber]

\* 4111111111111111 passes; its last digit replaced by 2 is the tests'
\* failing number.
C22_Witness ==
    /\ LuhnPassed
    /\ cardNumber = Visa16
    /\ Replaced(cardNumber, 16, "2") \in FailingVectors
    /\ ~luhnPasses(Replaced(cardNumber, 16, "2"))

\* The two characters are 0 and 9, in either order.
ZeroAndNine(a, b) == {a, b} = {"0", "9"}

\* For each digit card: does the Luhn step refuse every string obtained by
\* swapping two adjacent digits that differ?
TranspositionsRefused ==
    [cn \in DigitCards |->
        \A i \in 1..(Len(cn) - 1) :
            cn[i] # cn[i + 1] => ~luhnPasses(Swapped(cn, i))]

\* The same, leaving out the swaps of a 0 with a 9, and whether each such
\* swap leaves the verdict as it was.
TranspositionsRefusedButZeroNine ==
    [cn \in DigitCards |->
        \A i \in 1..(Len(cn) - 1) :
            /\ (cn[i] # cn[i + 1] /\ ~ZeroAndNine(cn[i], cn[i + 1]))
                  => ~luhnPasses(Swapped(cn, i))
            /\ ZeroAndNine(cn[i], cn[i + 1])
                  => (luhnPasses(Swapped(cn, i)) <=> luhnPasses(cn))]

(***************************************************************************)
(* C23, as stated: for every digit string of length 13, 15 or 16 that      *)
(* passes the Luhn step, swapping any two adjacent digits that differ      *)
(* gives a string that fails the Luhn step.                                *)
(***************************************************************************)
C23_AllTranspositions ==
    (LuhnPassed /\ IsDigits(cardNumber)) => TranspositionsRefused[cardNumber]

(***************************************************************************)
(* C23, amended: for every digit string of length 13, 15 or 16 that passes *)
(* the Luhn step, swapping two adjacent digits that differ and are not a 0 *)
(* and a 9 gives a string that fails the Luhn step; swapping an adjacent 0 *)
(* and 9 gives a string that passes it.                                    *)
(***************************************************************************)
C23_TranspositionsButZeroNine ==
    (LuhnPassed /\ IsDigits(cardNumber))
        => TranspositionsRefusedButZeroNine[cardNumber]

\* 340000005000009 passes; 430000005000009 fails; 340000005000090 passes.
C23_Witness ==
    /\ LuhnPassed
    /\ cardNumber = Amex15
    /\ ~luhnPasses(Swapped(cardNumber, 1))
    /\ luhnPasses(Swapped(cardNumber, 14))

\* For each digit card: the final digits with which its prefix passes the
\* Luhn step.
CheckDigits ==
    [cn \in DigitCards |->
        { c \in Digits : luhnPasses(Replaced(cn, Len(cn), c)) }]

(***************************************************************************)
(* C29: for every digit prefix of length 12, 14 or 15, exactly one of the  *)
(* ten final digits makes the 13-, 15- or 16-digit number pass the Luhn    *)
(* step; the step passes a number exactly when its last digit is that one. *)
(***************************************************************************)
C29_UniqueCheckDigit ==
    (Finished /\ Entered("validateCardNumber") /\ IsDigits(cardNumber)) =>
      /\ Cardinality(CheckDigits[cardNumber]) = 1
      /\ LuhnPassed <=> cardNumber[Len(cardNumber)] \in CheckDigits[cardNumber]

\* 4111111111111112 is refused: the check digit of its prefix is 1.
C29_Witness ==
    /\ LuhnFailed
    /\ cardNumber = Replaced(Visa16, 16, "2")
    /\ CheckDigits[cardNumber] = {"1"}

(***************************************************************************)
(* C27: every cardNumber for which validate returns Valid consists only of *)
(* the decimal digit characters 0-9, whatever the expiry date.             *)
(***************************************************************************)
C27_DigitsOnly == Valid => IsDigits(cardNumber)

(***************************************************************************)
(* The expiry check's verdict in a completed call.                         *)
(***************************************************************************)
DateChecked(c) == \E i \in 1..Len(c.calls) : c.calls[i] = "validateDate"

DateRefused(c) == DateChecked(c) /\ c.result = CardValidationException(EXPIRED)

DatePassed(c) == DateChecked(c) /\ ~DateRefused(c)

\* Months since year 0 of a date <<year, month>>.
MonthsOf(d) == 12 * d[1] + d[2]

(***************************************************************************)
(* C28: for a fixed card, as the current date advances month by month, the *)
(* expiry check's verdict changes at most once, from passing to EXPIRED:   *)
(* once EXPIRED is reported at some date it is reported at every later     *)
(* date, and a date at which the check passes is followed only by passing  *)
(* dates up to the first EXPIRED one.                                      *)
(***************************************************************************)
C28_ExpiryMonotone ==
    Repeated =>
      \A i, j \in 1..Len(Completed) :
        (/\ DateChecked(Completed[i])
         /\ DateChecked(Completed[j])
         /\ MonthsOf(Completed[i].clock) <= MonthsOf(Completed[j].clock)) =>
          /\ DateRefused(Completed[i]) => DateRefused(Completed[j])
          /\ DatePassed(Completed[j]) => DatePassed(Completed[i])

\* EXPIRED in one month and EXPIRED again the month after.
C28_Witness ==
    /\ Repeated
    /\ DateRefused(Completed[1])
    /\ DateRefused(Completed[2])
    /\ MonthsOf(Completed[1].clock) < MonthsOf(Completed[2].clock)

(***************************************************************************)
(* C25: every request that passes the pre-validation gate and reaches the  *)
(* core has a whole expiryYear >= 1900 and a whole expiryMonth in 1..12; a *)
(* year or a month that is not whole is refused before the core runs.      *)
(***************************************************************************)
C25_IntegersOnly ==
    (caller = "http" /\ Entered("validateCardNumberLength")) =>
      /\ WholeExpiry
      /\ WellFormed

SentTwice == \E k \in Properties : isArray(query, k)

\* The classes of error the interceptor answers with 400.
ValidationErrors == {"CardValidationException", "BadRequestException"}

(***************************************************************************)
(* C30: for every combination of query parameters sent to GET              *)
(* /cards/validate (present or missing, empty, non-numeric, out of range,  *)
(* over-length, not whole, repeated, with an unknown one), when nothing    *)
(* but the request decides the outcome, the response status is 200 or 400: *)
(* what the gate lets through is a string cardNumber with a numeric year   *)
(* and month, on which the core returns or raises a                        *)
(* CardValidationException and nothing else.                               *)
(***************************************************************************)
C30_NoServerError ==
    (GetRequest /\ fault = NoFault) =>
      /\ calls # <<>> =>
           /\ Has(query, "cardNumber")
           /\ cardNumber = query.cardNumber
           /\ ~SentTwice
           /\ isNumber(expiryYear)
           /\ isNumber(expiryMonth)
      /\ result.kind = "throw" => result.error \in ValidationErrors
      /\ pc = "responded" =>
           /\ Response.status \in {200, 400}
           /\ Response.status = 200 <=> result.kind = "return"

\* The card number sent twice: refused by the gate with 400.
C30_Witness ==
    /\ Get
    /\ fault = NoFault
    /\ isArray(query, "cardNumber")
    /\ result = BadRequestException(<<TOO_LONG, CARD_NOT_STRING>>)
    /\ Response.status = 400

(***************************************************************************)
(* The outcome of a call of validate.                                      *)
(***************************************************************************)
Called == caller = "direct" /\ pc = "validateCardNumberLength"

Ended == caller = "direct" /\ pc = "done"

ReturnedTrueOrThrewReason ==
    \/ result.kind = "return" /\ result.data = TRUE
    \/ /\ result.kind = "throw"
       /\ result.error = "CardValidationException"
       /\ result.message \in CoreReasons

(***************************************************************************)
(* C24: validate is total on gated inputs: for every DTO with a string     *)
(* cardNumber and a numeric expiryYear and expiryMonth, a call that has    *)
(* begun ends, and it ends by returning true or by throwing a              *)
(* CardValidationException with one of the three reason messages; it never *)
(* returns false and never throws an error of another kind.                *)
(***************************************************************************)
C24_Total ==
    /\ [](Ended => ReturnedTrueOrThrewReason)
    /\ Called ~> Ended

\* A card number with a letter, a year that is not whole: the Luhn sum is
\* NaN and the call ends with the Luhn reason.
C24_Witness ==
    /\ Ended
    /\ ~IsDigits(cardNumber)
    /\ IsFraction(expiryYear)
    /\ calls = AllSteps
    /\ result = CardValidationException(LUHN_FAILED)

(***************************************************************************)
(* Calls in progress together.                                             *)
(***************************************************************************)
\* validate run alone on a DTO when the clock reads d: the three steps in
\* their order, and the steps entered.
outcome(cn, y, m, d) ==
    IF ~lengthPermitted(cn) THEN CardValidationException(WRONG_LENGTH)
    ELSE IF ~isValid(d, y, m) THEN CardValidationException(EXPIRED)
    ELSE IF ~luhnPasses(cn) THEN CardValidationException(LUHN_FAILED)
    ELSE Returned(TRUE)

stepsOf(cn, y, m, d) ==
    IF ~lengthPermitted(cn) THEN SubSeq(AllSteps, 1, 1)
    ELSE IF ~isValid(d, y, m) THEN SubSeq(AllSteps, 1, 2)
    ELSE AllSteps

\* Every call in progress or ended, the running one first.
AllCalls == <<Running>> \o others

EndedAsAlone(c) ==
    c.pc = "done" =>
      /\ c.result =
           outcome(c.cardNumber, c.expiryYear, c.expiryMonth, c.currentDate)
      /\ c.calls =
           stepsOf(c.cardNumber, c.expiryYear, c.expiryMonth, c.currentDate)

\* A call that has not begun holds nothing of another call.
Untouched(c) ==
    c.calls = <<>> =>
      /\ c.pc = "validateCardNumberLength"
      /\ c.result = NoResult
      /\ c.currentDate = <<>>

====
